---- MODULE Spec2Model ----
(***************************************************************************)
(* Fleet Provisioning topics of rustot: the Topic taxonomy (parse/format), *)
(* the Subscribe / Unsubscribe builders and the provisioning example flow. *)
(* Strings are sequences of one-character strings, so that splitting,      *)
(* prefix tests and buffer lengths are computed as the code computes them. *)
(***************************************************************************)
EXTENDS Integers, Sequences, FiniteSets, TLC

VARIABLES
    \* --- Topic functions (topics.rs, impl Topic) ---
    op,         \* the Topic operation applied last
    topic,      \* the Topic value given to format / direction
    cap,        \* the const parameter L of format::<L>
    segs,       \* the '/'-separated segments the input string was built from
    str,        \* the string given to from_str / check
    formatted,  \* result of format
    parsed,     \* result of from_str
    checked,    \* result of check
    dir,        \* result of direction
    \* --- Subscribe<N> / Unsubscribe<N> builders ---
    kind,       \* "sub" (Subscribe) or "unsub" (Unsubscribe)
    N,          \* the const parameter N of the builder
    topics,     \* self.topics: the stored entries, in insertion order
    last,       \* the last topic() call: its input and the entries before it
    fed,        \* index of the last pool entry offered (ordered feeding only)
    send_pc,    \* position of send: "build", "sending", "done"
    paths,      \* topic_paths of topics() / send: the formatted entries
    calls,      \* the subscribe / unsubscribe calls the collaborator received
    result,     \* what topics() / send returned: "none", "Ok", "Overflow", "Mqtt"
    \* --- provision_credentials (examples/provisioning.rs) ---
    flow_pc,    \* "connected", "loop", "done" (returned) or "panicked" (an expect failed)
    payload_format,           \* the format the provisioner was built with
    net,        \* notifications the event loop will yield, oldest first
    requests,   \* the provisioning requests published so far
    subacks_seen,             \* number of Suback notifications the loop has handled
    provisioned_credentials,  \* the local of the same name
    flow_result,              \* what provision_credentials returned
    last_event  \* the notification handled last and the arm that took it

topicVars == <<op, topic, cap, segs, str, formatted, parsed, checked, dir>>
builderVars == <<kind, N, topics, last, fed, send_pc, paths, calls, result>>
flowVars == <<flow_pc, payload_format, net, requests, subacks_seen,
              provisioned_credentials, flow_result, last_event>>
vars == <<topicVars, builderVars, flowVars>>
notTopicVars == <<builderVars, flowVars>>
notBuilderVars == <<topicVars, flowVars>>
notFlowVars == <<topicVars, builderVars>>

-----------------------------------------------------------------------------
(* Bounds of the model *)

\* Longest input string of from_str / check, in '/'-separated segments.
MaxSegs == 7
\* A small capacity L, so that format::<L> also overflows on short names.
SmallBufLen == 40

-----------------------------------------------------------------------------
(* Strings *)

W_aws == <<"$", "a", "w", "s">>
W_provisioning_templates == <<"p", "r", "o", "v", "i", "s", "i", "o", "n", "i", "n", "g", "-", "t", "e", "m", "p", "l", "a", "t", "e", "s">>
W_certificates == <<"c", "e", "r", "t", "i", "f", "i", "c", "a", "t", "e", "s">>
W_provision == <<"p", "r", "o", "v", "i", "s", "i", "o", "n">>
W_create == <<"c", "r", "e", "a", "t", "e">>
W_create_from_csr == <<"c", "r", "e", "a", "t", "e", "-", "f", "r", "o", "m", "-", "c", "s", "r">>
W_accepted == <<"a", "c", "c", "e", "p", "t", "e", "d">>
W_rejected == <<"r", "e", "j", "e", "c", "t", "e", "d">>
W_cbor == <<"c", "b", "o", "r">>
W_json == <<"j", "s", "o", "n">>
CERT_PREFIX == <<"$", "a", "w", "s", "/", "c", "e", "r", "t", "i", "f", "i", "c", "a", "t", "e", "s">>
PROVISIONING_PREFIX == <<"$", "a", "w", "s", "/", "p", "r", "o", "v", "i", "s", "i", "o", "n", "i", "n", "g", "-", "t", "e", "m", "p", "l", "a", "t", "e", "s">>
\* The literal pieces of the format strings of Topic::format.
P_slash == <<"/">>
P_provision == <<"/", "p", "r", "o", "v", "i", "s", "i", "o", "n", "/">>
P_slash_accepted == <<"/", "a", "c", "c", "e", "p", "t", "e", "d">>
P_slash_rejected == <<"/", "r", "e", "j", "e", "c", "t", "e", "d">>
P_create == <<"/", "c", "r", "e", "a", "t", "e", "/">>
P_create_from_csr == <<"/", "c", "r", "e", "a", "t", "e", "-", "f", "r", "o", "m", "-", "c", "s", "r", "/">>
\* Words that only inputs use.
W_notaws == <<"$", "n", "o", "t", "a", "w", "s">>
W_foo == <<"f", "o", "o">>
W_bar == <<"b", "a", "r">>
W_certificates_x == <<"c", "e", "r", "t", "i", "f", "i", "c", "a", "t", "e", "s", "-", "x">>
W_xml == <<"x", "m", "l">>
W_extra == <<"e", "x", "t", "r", "a">>
W_t == <<"t">>
W_tpl_1 == <<"t", "p", "l", "-", "1">>
W_empty == <<>>

\* Option<T> and Result<T, E>
None == [some |-> FALSE]
Some(v) == [some |-> TRUE, val |-> v]
Ok(v) == [ok |-> TRUE, val |-> v]
Err(e) == [ok |-> FALSE, err |-> e]

\* ss[0] "/" ss[1] "/" ... : the string whose segments are ss.
RECURSIVE Join(_)
Join(ss) ==
    IF Len(ss) = 0 THEN <<>>
    ELSE IF Len(ss) = 1 THEN ss[1]
    ELSE ss[1] \o P_slash \o Join(Tail(ss))

\* str::starts_with
starts_with(s, p) == Len(p) <= Len(s) /\ SubSeq(s, 1, Len(p)) = p

\* Index of the first '/' of s, 0 when there is none.
find_slash(s) ==
    IF \E i \in 1..Len(s) : s[i] = "/"
    THEN CHOOSE i \in 1..Len(s) : s[i] = "/" /\ \A j \in 1..(i - 1) : s[j] # "/"
    ELSE 0

\* str::splitn(n, '/'): at most n pieces, the last one holding the rest of s.
RECURSIVE splitn(_, _)
splitn(n, s) ==
    IF n = 0 THEN <<>>
    ELSE IF n = 1 \/ find_slash(s) = 0 THEN <<s>>
    ELSE LET i == find_slash(s)
         IN <<SubSeq(s, 1, i - 1)>> \o splitn(n - 1, SubSeq(s, i + 1, Len(s)))

\* The limit of segments from_str splits into.
SplitLimit == 6

\* slice::get with the code's 0-based index
get(tt, i) == IF i < Len(tt) THEN Some(tt[i + 1]) ELSE None

\* The pattern Some(&"literal")
is(o, w) == o.some /\ o.val = w

-----------------------------------------------------------------------------
(* PayloadFormat *)

PayloadFormat == {"Cbor", "Json"}

\* impl Display for PayloadFormat
PayloadFormat_fmt(f) == IF f = "Cbor" THEN W_cbor ELSE W_json

\* Mutant: the two match arms of PayloadFormat::from_str give each other's format.
PayloadFormat_from_str_swapped(s) ==
    IF s = W_cbor THEN Ok("Json")
    ELSE IF s = W_json THEN Ok("Cbor")
    ELSE Err("()")

\* impl FromStr for PayloadFormat
PayloadFormat_from_str(s) ==
    IF s = W_cbor THEN Ok("Cbor")
    ELSE IF s = W_json THEN Ok("Json")
    ELSE Err("()")

-----------------------------------------------------------------------------
(* Topic *)

RegisterThing(n, f) == [v |-> "RegisterThing", name |-> n, fmt |-> f]
CreateKeysAndCertificate(f) == [v |-> "CreateKeysAndCertificate", fmt |-> f]
CreateCertificateFromCsr(f) == [v |-> "CreateCertificateFromCsr", fmt |-> f]
RegisterThingAccepted(n, f) == [v |-> "RegisterThingAccepted", name |-> n, fmt |-> f]
RegisterThingRejected(n, f) == [v |-> "RegisterThingRejected", name |-> n, fmt |-> f]
CreateKeysAndCertificateAccepted(f) == [v |-> "CreateKeysAndCertificateAccepted", fmt |-> f]
CreateKeysAndCertificateRejected(f) == [v |-> "CreateKeysAndCertificateRejected", fmt |-> f]
CreateCertificateFromCsrAccepted(f) == [v |-> "CreateCertificateFromCsrAccepted", fmt |-> f]
CreateCertificateFromCsrRejected(f) == [v |-> "CreateCertificateFromCsrRejected", fmt |-> f]

\* Mutant: check tests the certificate prefix alone.
check_cert_only(s) == starts_with(s, CERT_PREFIX)

\* Mutant: check tests the provisioning-template prefix alone.
check_provisioning_only(s) == starts_with(s, PROVISIONING_PREFIX)

\* Topic::check
check(s) == starts_with(s, CERT_PREFIX) \/ starts_with(s, PROVISIONING_PREFIX)

\* from_str, the arm (Some(&"$aws"), Some(&"provisioning-templates")); the `?` on
\* PayloadFormat::from_str(payload_format).ok() returns None from from_str.
provisioning_arm(tt) ==
    IF get(tt, 2).some /\ is(get(tt, 3), W_provision) /\ get(tt, 4).some
          /\ is(get(tt, 5), W_accepted)
    THEN LET pf == PayloadFormat_from_str(get(tt, 4).val)
         IN IF pf.ok THEN Some(RegisterThingAccepted(get(tt, 2).val, pf.val)) ELSE None
    ELSE IF get(tt, 2).some /\ is(get(tt, 3), W_provision) /\ get(tt, 4).some
          /\ is(get(tt, 5), W_rejected)
    THEN LET pf == PayloadFormat_from_str(get(tt, 4).val)
         IN IF pf.ok THEN Some(RegisterThingRejected(get(tt, 2).val, pf.val)) ELSE None
    ELSE None

\* from_str, the arm (Some(&"$aws"), Some(&"certificates"))
certificates_arm(tt) ==
    IF is(get(tt, 2), W_create) /\ get(tt, 3).some /\ is(get(tt, 4), W_accepted)
    THEN LET pf == PayloadFormat_from_str(get(tt, 3).val)
         IN IF pf.ok THEN Some(CreateKeysAndCertificateAccepted(pf.val)) ELSE None
    ELSE IF is(get(tt, 2), W_create) /\ get(tt, 3).some /\ is(get(tt, 4), W_rejected)
    THEN LET pf == PayloadFormat_from_str(get(tt, 3).val)
         IN IF pf.ok THEN Some(CreateKeysAndCertificateRejected(pf.val)) ELSE None
    ELSE IF is(get(tt, 2), W_create_from_csr) /\ get(tt, 3).some
          /\ is(get(tt, 4), W_accepted)
    THEN LET pf == PayloadFormat_from_str(get(tt, 3).val)
         IN IF pf.ok THEN Some(CreateCertificateFromCsrAccepted(pf.val)) ELSE None
    ELSE IF is(get(tt, 2), W_create_from_csr) /\ get(tt, 3).some
          /\ is(get(tt, 4), W_rejected)
    THEN LET pf == PayloadFormat_from_str(get(tt, 3).val)
         IN IF pf.ok THEN Some(CreateCertificateFromCsrRejected(pf.val)) ELSE None
    ELSE None

\* Topic::from_str
from_str(s) ==
    LET tt == splitn(SplitLimit, s)
    IN IF is(get(tt, 0), W_aws) /\ is(get(tt, 1), W_provisioning_templates)
       THEN provisioning_arm(tt)
       ELSE IF is(get(tt, 0), W_aws) /\ is(get(tt, 1), W_certificates)
       THEN certificates_arm(tt)
       ELSE None

OutgoingVariants ==
    {"RegisterThing", "CreateKeysAndCertificate", "CreateCertificateFromCsr"}

\* Mutant: the matches! of direction lacks the CreateCertificateFromCsr pattern.
direction_without_csr(t) ==
    IF t.v \in {"RegisterThing", "CreateKeysAndCertificate"} THEN "Outgoing" ELSE "Incoming"

\* Mutant: the matches! of direction names RegisterThingAccepted for RegisterThing.
direction_wrong_variant(t) ==
    IF t.v \in {"RegisterThingAccepted", "CreateKeysAndCertificate", "CreateCertificateFromCsr"}
    THEN "Outgoing" ELSE "Incoming"

\* Topic::direction
direction(t) == IF t.v \in OutgoingVariants THEN "Outgoing" ELSE "Incoming"

\* heapless::String<L>::write_fmt: the pieces are pushed one after the other,
\* and a piece that does not fit in the L bytes fails the write.
RECURSIVE write_fmt(_, _, _)
write_fmt(buf, pieces, L) ==
    IF pieces = <<>> THEN Ok(buf)
    ELSE IF Len(buf) + Len(Head(pieces)) > L THEN Err("fmt::Error")
    ELSE write_fmt(buf \o Head(pieces), Tail(pieces), L)

\* The pieces format_args! hands to write_fmt, per variant of Topic::format.
format_args(t) ==
    CASE t.v = "RegisterThing" ->
            <<PROVISIONING_PREFIX, P_slash, t.name, P_provision, PayloadFormat_fmt(t.fmt)>>
      [] t.v = "RegisterThingAccepted" ->
            <<PROVISIONING_PREFIX, P_slash, t.name, P_provision, PayloadFormat_fmt(t.fmt),
              P_slash_accepted>>
      [] t.v = "RegisterThingRejected" ->
            <<PROVISIONING_PREFIX, P_slash, t.name, P_provision, PayloadFormat_fmt(t.fmt),
              P_slash_rejected>>
      [] t.v = "CreateKeysAndCertificate" ->
            <<CERT_PREFIX, P_create, PayloadFormat_fmt(t.fmt)>>
      [] t.v = "CreateKeysAndCertificateAccepted" ->
            <<CERT_PREFIX, P_create, PayloadFormat_fmt(t.fmt), P_slash_accepted>>
      [] t.v = "CreateKeysAndCertificateRejected" ->
            <<CERT_PREFIX, P_create, PayloadFormat_fmt(t.fmt), P_slash_rejected>>
      [] t.v = "CreateCertificateFromCsr" ->
            <<CERT_PREFIX, P_create_from_csr, PayloadFormat_fmt(t.fmt)>>
      [] t.v = "CreateCertificateFromCsrAccepted" ->
            <<CERT_PREFIX, P_create_from_csr, PayloadFormat_fmt(t.fmt)>>
      [] t.v = "CreateCertificateFromCsrRejected" ->
            <<CERT_PREFIX, P_create_from_csr, PayloadFormat_fmt(t.fmt)>>

\* Topic::format::<L>
format(t, L) ==
    LET w == write_fmt(<<>>, format_args(t), L)
    IN IF w.ok THEN Ok(w.val) ELSE Err("Overflow")

-----------------------------------------------------------------------------
(* The Topic functions applied to bounded inputs *)

\* heapless::String<128> of Subscribe::topics, heapless::String<256> of Unsubscribe::topics
SubscribeTopicLen == 128
UnsubscribeTopicLen == 256

TemplateNames == {W_t, W_tpl_1, W_empty}

OutgoingTopics ==
    {RegisterThing(n, f) : n \in TemplateNames, f \in PayloadFormat}
    \cup {CreateKeysAndCertificate(f) : f \in PayloadFormat}
    \cup {CreateCertificateFromCsr(f) : f \in PayloadFormat}

IncomingTopics ==
    {RegisterThingAccepted(n, f) : n \in TemplateNames, f \in PayloadFormat}
    \cup {RegisterThingRejected(n, f) : n \in TemplateNames, f \in PayloadFormat}
    \cup {CreateKeysAndCertificateAccepted(f) : f \in PayloadFormat}
    \cup {CreateKeysAndCertificateRejected(f) : f \in PayloadFormat}
    \cup {CreateCertificateFromCsrAccepted(f) : f \in PayloadFormat}
    \cup {CreateCertificateFromCsrRejected(f) : f \in PayloadFormat}

AllTopics == OutgoingTopics \cup IncomingTopics

BufLens == {SmallBufLen, SubscribeTopicLen, UnsubscribeTopicLen}

\* The words an input string may hold as its i-th segment.
SegChoices(i) ==
    CASE i = 1 -> {W_aws, W_notaws, W_foo}
      [] i = 2 -> {W_provisioning_templates, W_certificates, W_certificates_x, W_bar}
      [] i = 3 -> {W_create, W_create_from_csr, W_tpl_1, W_empty}
      [] i = 4 -> {W_provision, W_cbor, W_json, W_xml}
      [] i = 5 -> {W_cbor, W_json, W_xml, W_accepted, W_rejected}
      [] i = 6 -> {W_accepted, W_rejected, W_extra}
      [] OTHER -> {W_accepted, W_extra}

RECURSIVE SegSeqs(_)
SegSeqs(n) ==
    IF n = 0 THEN {<<>>}
    ELSE {Append(p, w) : p \in SegSeqs(n - 1), w \in SegChoices(n)}

InputSegs == UNION {SegSeqs(n) : n \in 1..MaxSegs}

NoTopic == [v |-> "none"]

TopicIdle ==
    /\ op = "idle"
    /\ topic = NoTopic
    /\ cap = 0
    /\ segs = <<>>
    /\ str = <<>>
    /\ formatted = Err("none")
    /\ parsed = None
    /\ checked = FALSE
    /\ dir = "none"

BuilderIdle ==
    /\ kind = "none"
    /\ N = 0
    /\ topics = <<>>
    /\ last = [called |-> FALSE]
    /\ fed = 0
    /\ send_pc = "build"
    /\ paths = <<>>
    /\ calls = <<>>
    /\ result = "none"

FlowIdle ==
    /\ flow_pc = "none"
    /\ payload_format = "none"
    /\ net = <<>>
    /\ requests = <<>>
    /\ subacks_seen = 0
    /\ provisioned_credentials = None
    /\ flow_result = "none"
    /\ last_event = [arm |-> "none"]

\* topic.format::<L>()
Format ==
    /\ op = "idle"
    /\ \E t \in AllTopics, L \in BufLens :
          /\ topic' = t
          /\ cap' = L
          /\ formatted' = format(t, L)
    /\ op' = "format"
    /\ UNCHANGED <<segs, str, parsed, checked, dir>>

\* Topic::from_str(s), s built from the segments sg
FromStr ==
    /\ op = "idle"
    /\ \E sg \in InputSegs :
          /\ segs' = sg
          /\ str' = Join(sg)
          /\ parsed' = from_str(Join(sg))
    /\ op' = "from_str"
    /\ UNCHANGED <<topic, cap, formatted, checked, dir>>

\* Topic::from_str(topic.format()?.as_str())
ParseFormatted ==
    /\ op = "format"
    /\ formatted.ok
    /\ str' = formatted.val
    /\ parsed' = from_str(formatted.val)
    /\ op' = "roundtrip"
    /\ UNCHANGED <<topic, cap, segs, formatted, checked, dir>>

\* Topic::from_str(s)?.format::<L>()
FormatParsed ==
    /\ op = "from_str"
    /\ parsed.some
    /\ \E L \in BufLens :
          /\ cap' = L
          /\ formatted' = format(parsed.val, L)
    /\ topic' = parsed.val
    /\ op' = "inverse"
    /\ UNCHANGED <<segs, str, parsed, checked, dir>>

\* Topic::check(s) on the string from_str was given
Check ==
    /\ op = "from_str"
    /\ checked' = check(str)
    /\ op' = "check"
    /\ UNCHANGED <<topic, cap, segs, str, formatted, parsed, dir>>

\* topic.direction()
Direction ==
    /\ op = "idle"
    /\ \E t \in AllTopics :
          /\ topic' = t
          /\ dir' = direction(t)
    /\ op' = "direction"
    /\ UNCHANGED <<cap, segs, str, formatted, parsed, checked>>

TopicInit == TopicIdle /\ BuilderIdle /\ FlowIdle

TopicNext ==
    \/ Format /\ UNCHANGED notTopicVars
    \/ FromStr /\ UNCHANGED notTopicVars
    \/ ParseFormatted /\ UNCHANGED notTopicVars
    \/ FormatParsed /\ UNCHANGED notTopicVars
    \/ Check /\ UNCHANGED notTopicVars
    \/ Direction /\ UNCHANGED notTopicVars

SpecTopic == TopicInit /\ [][TopicNext]_vars

-----------------------------------------------------------------------------
(* The wire grammar of the response topics, on segments *)

FormatWords == {W_cbor, W_json}
FormatOf(w) == IF w = W_cbor THEN "Cbor" ELSE "Json"

IsProvisionShape(sg, suffix) ==
    /\ Len(sg) = 6
    /\ sg[1] = W_aws
    /\ sg[2] = W_provisioning_templates
    /\ sg[4] = W_provision
    /\ sg[5] \in FormatWords
    /\ sg[6] = suffix

IsCertificateShape(sg, verb, suffix) ==
    /\ Len(sg) = 5
    /\ sg[1] = W_aws
    /\ sg[2] = W_certificates
    /\ sg[3] = verb
    /\ sg[4] \in FormatWords
    /\ sg[5] = suffix

IsResponseShape(sg) ==
    \/ \E x \in {W_accepted, W_rejected} : IsProvisionShape(sg, x)
    \/ \E vb \in {W_create, W_create_from_csr}, x \in {W_accepted, W_rejected} :
          IsCertificateShape(sg, vb, x)

\* The three request variants, of direction Outgoing.
RequestVariants ==
    {"RegisterThing", "CreateKeysAndCertificate", "CreateCertificateFromCsr"}

\* The variant the grammar assigns to a response-shaped topic.
GrammarTopic(sg) ==
    CASE IsProvisionShape(sg, W_accepted) -> RegisterThingAccepted(sg[3], FormatOf(sg[5]))
      [] IsProvisionShape(sg, W_rejected) -> RegisterThingRejected(sg[3], FormatOf(sg[5]))
      [] IsCertificateShape(sg, W_create, W_accepted) ->
            CreateKeysAndCertificateAccepted(FormatOf(sg[4]))
      [] IsCertificateShape(sg, W_create, W_rejected) ->
            CreateKeysAndCertificateRejected(FormatOf(sg[4]))
      [] IsCertificateShape(sg, W_create_from_csr, W_accepted) ->
            CreateCertificateFromCsrAccepted(FormatOf(sg[4]))
      [] IsCertificateShape(sg, W_create_from_csr, W_rejected) ->
            CreateCertificateFromCsrRejected(FormatOf(sg[4]))

-----------------------------------------------------------------------------
(* Claims about Topic *)

\* C1: every Topic value (all nine variants, both payload formats, any template
\* name) that format writes into a large enough buffer is returned unchanged by
\* from_str applied to the formatted string.
C1_RoundTrip ==
    /\ (op = "format" /\ cap = UnsubscribeTopicLen) => formatted.ok
    /\ op = "roundtrip" => parsed = Some(topic)

\* C2: from_str returns None for every string that is not exactly one of the six
\* response shapes of the grammar.
C2_NonMembership ==
    (op = "from_str" /\ ~IsResponseShape(segs)) => parsed = None

\* C3: for every string s of the six response shapes, from_str(s) is Some(t) and
\* t.format() into a buffer that holds s returns exactly s.
C3_FormatInvertsFromStr ==
    /\ (op = "from_str" /\ IsResponseShape(segs)) => parsed.some
    /\ (op = "inverse" /\ IsResponseShape(segs) /\ cap >= Len(str)) => formatted = Ok(str)

\* C4: from_str maps each of the six response shapes to the variant of the
\* grammar, carrying the <name> and <fmt> segments of the input, and never
\* returns a variant of direction Outgoing.
C4_FromStrVariants ==
    /\ (op \in {"from_str", "inverse", "check"} /\ IsResponseShape(segs))
          => parsed = Some(GrammarTopic(segs))
    /\ parsed.some => parsed.val.v \notin RequestVariants

C4_Witness ==
    /\ op = "from_str"
    /\ segs = <<W_aws, W_provisioning_templates, W_tpl_1, W_provision, W_cbor, W_rejected>>
    /\ parsed = Some(RegisterThingRejected(W_tpl_1, "Cbor"))

-----------------------------------------------------------------------------
(* Subscribe<N> / Unsubscribe<N> *)

\* Largest capacity N of a builder fed in any order.
MaxN == 3
\* The capacity N of a builder that is fed in pool order and then sent.
SendN == 11
\* Lengths of two template names too long for the 128 and the 256 byte buffer.
LongNameLen == 80
HugeNameLen == 210

\* Mutant: the batches of send hold one topic more.
ChunkSize_plus_one == 5 + 1

\* slice::chunks(5) of Subscribe::send and Unsubscribe::send
ChunkSize == 5

QoS == {"AtMostOnce", "AtLeastOnce"}

W_long == [i \in 1..LongNameLen |-> "x"]
W_huge == [i \in 1..HugeNameLen |-> "y"]

\* Mutant: a push on a full vector drops the oldest entry to make room.
vec_push_evict(vec, n, item) ==
    IF Len(vec) < n THEN [ok |-> TRUE, vec |-> Append(vec, item)]
    ELSE [ok |-> TRUE, vec |-> Append(Tail(vec), item)]

\* Mutant: the new entry is put in front of the stored ones.
vec_push_front(vec, n, item) ==
    IF Len(vec) < n THEN [ok |-> TRUE, vec |-> <<item>> \o vec]
    ELSE [ok |-> FALSE, vec |-> vec]

\* heapless::Vec<T, N>::push: Err(item) when the vector is full
vec_push(vec, n, item) ==
    IF Len(vec) < n THEN [ok |-> TRUE, vec |-> Append(vec, item)]
    ELSE [ok |-> FALSE, vec |-> vec]

\* Mutant: the duplicate test of Subscribe::topic compares the QoS too.
Subscribe_topic_dup_qos(ts, n, t, qos) ==
    IF direction(t) # "Incoming" THEN ts
    ELSE IF \E i \in 1..Len(ts) : ts[i] = <<t, qos>> THEN ts
    ELSE vec_push(ts, n, <<t, qos>>).vec

\* Subscribe::topic: the entries of the builder it returns
Subscribe_topic(ts, n, t, qos) ==
    IF direction(t) # "Incoming" THEN ts
    ELSE IF \E i \in 1..Len(ts) : ts[i][1] = t THEN ts
    ELSE vec_push(ts, n, <<t, qos>>).vec

\* Unsubscribe::topic: the entries of the builder it returns
Unsubscribe_topic(ts, n, t) ==
    IF direction(t) # "Incoming" THEN ts
    ELSE IF \E i \in 1..Len(ts) : ts[i] = t THEN ts
    ELSE vec_push(ts, n, t).vec

\* Mutant: entries that fail to format are left out (filter_map(.. .ok())).
RECURSIVE collect_skip_err(_)
collect_skip_err(rs) ==
    IF rs = <<>> THEN Ok(<<>>)
    ELSE LET rest == collect_skip_err(Tail(rs))
         IN IF Head(rs).ok THEN Ok(<<Head(rs).val>> \o rest.val) ELSE rest

\* Iterator::collect into Result<Vec<_, N>, Error>: the first Err ends it
RECURSIVE collect(_)
collect(rs) ==
    IF rs = <<>> THEN Ok(<<>>)
    ELSE IF ~Head(rs).ok THEN Head(rs)
    ELSE LET rest == collect(Tail(rs))
         IN IF rest.ok THEN Ok(<<Head(rs).val>> \o rest.val) ELSE rest

\* Subscribe::topics
Subscribe_topics(ts) ==
    collect([i \in 1..Len(ts) |->
        LET f == format(ts[i][1], SubscribeTopicLen)
        IN IF f.ok THEN Ok(<<f.val, ts[i][2]>>) ELSE f])

\* Unsubscribe::topics
Unsubscribe_topics(ts) ==
    collect([i \in 1..Len(ts) |-> format(ts[i], UnsubscribeTopicLen)])

Min(a, b) == IF a <= b THEN a ELSE b

\* slice::chunks(size): consecutive pieces of `size` elements, the last one shorter
\* when the length is no multiple of size
RECURSIVE chunks(_, _)
chunks(v, size) ==
    IF v = <<>> THEN <<>>
    ELSE <<SubSeq(v, 1, Min(size, Len(v)))>> \o chunks(SubSeq(v, size + 1, Len(v)), size)

\* Subscribe::new() / Unsubscribe::new(), the Topic functions being idle
BuilderNew(k, n) ==
    /\ kind = k
    /\ N = n
    /\ topics = <<>>
    /\ last = [called |-> FALSE]
    /\ fed = 0
    /\ send_pc = "build"
    /\ paths = <<>>
    /\ calls = <<>>
    /\ result = "none"

\* builder.topic(t, qos) on a Subscribe<N>
SubscribeTopic(t, qos) ==
    /\ kind = "sub"
    /\ send_pc = "build"
    /\ topics' = Subscribe_topic(topics, N, t, qos)
    /\ last' = [called |-> TRUE, topic |-> t, qos |-> qos, before |-> topics]
    /\ UNCHANGED <<kind, N, send_pc, paths, calls, result>>

\* builder.topic(t) on an Unsubscribe<N>
UnsubscribeTopic(t) ==
    /\ kind = "unsub"
    /\ send_pc = "build"
    /\ topics' = Unsubscribe_topic(topics, N, t)
    /\ last' = [called |-> TRUE, topic |-> t, qos |-> "none", before |-> topics]
    /\ UNCHANGED <<kind, N, send_pc, paths, calls, result>>

\* builder.topics() on a Subscribe<N>: consumes the builder
SubscribeTopics ==
    /\ kind = "sub"
    /\ send_pc = "build"
    /\ LET r == Subscribe_topics(topics)
       IN /\ paths' = IF r.ok THEN r.val ELSE <<>>
          /\ result' = IF r.ok THEN "Ok" ELSE r.err
    /\ send_pc' = "done"
    /\ UNCHANGED <<kind, N, topics, last, fed, calls>>

\* builder.topics() on an Unsubscribe<N>: consumes the builder
UnsubscribeTopics ==
    /\ kind = "unsub"
    /\ send_pc = "build"
    /\ LET r == Unsubscribe_topics(topics)
       IN /\ paths' = IF r.ok THEN r.val ELSE <<>>
          /\ result' = IF r.ok THEN "Ok" ELSE r.err
    /\ send_pc' = "done"
    /\ UNCHANGED <<kind, N, topics, last, fed, calls>>

\* Subscribe::send up to its loop: the empty test and `self.topics()?`
SubscribeSendBegin ==
    /\ kind = "sub"
    /\ send_pc = "build"
    /\ IF topics = <<>>
       THEN /\ result' = "Ok"
            /\ send_pc' = "done"
            /\ paths' = paths
       ELSE LET r == Subscribe_topics(topics)
            IN IF r.ok
               THEN /\ paths' = r.val
                    /\ send_pc' = "sending"
                    /\ result' = result
               ELSE /\ result' = r.err
                    /\ send_pc' = "done"
                    /\ paths' = paths
    /\ UNCHANGED <<kind, N, topics, last, fed, calls>>

\* Mutant: the loop of send goes on after a failed call (`.ok()` for `?`).
SubscribeSendCall_ignore_err ==
    /\ kind = "sub"
    /\ send_pc = "sending"
    /\ LET cs == chunks(paths, ChunkSize)
           k == Len(calls) + 1
       IN \E ok \in BOOLEAN :
             /\ calls' = Append(calls, [op |-> "subscribe", topics |-> cs[k], ok |-> ok])
             /\ IF k = Len(cs)
                THEN /\ result' = IF ok THEN "Ok" ELSE "Mqtt"
                     /\ send_pc' = "done"
                ELSE UNCHANGED <<result, send_pc>>
    /\ UNCHANGED <<kind, N, topics, last, fed, paths>>

\* Subscribe::send, one turn of `for t in topics.chunks(5) { mqtt.subscribe(t)?; }`,
\* with the `Ok(())` that follows the last turn; the collaborator's answer is free.
SubscribeSendCall ==
    /\ kind = "sub"
    /\ send_pc = "sending"
    /\ LET cs == chunks(paths, ChunkSize)
           k == Len(calls) + 1
       IN \E ok \in BOOLEAN :
             /\ calls' = Append(calls, [op |-> "subscribe", topics |-> cs[k], ok |-> ok])
             /\ IF ~ok
                THEN /\ result' = "Mqtt"
                     /\ send_pc' = "done"
                ELSE IF k = Len(cs)
                THEN /\ result' = "Ok"
                     /\ send_pc' = "done"
                ELSE UNCHANGED <<result, send_pc>>
    /\ UNCHANGED <<kind, N, topics, last, fed, paths>>

\* Unsubscribe::send up to its loop
UnsubscribeSendBegin ==
    /\ kind = "unsub"
    /\ send_pc = "build"
    /\ IF topics = <<>>
       THEN /\ result' = "Ok"
            /\ send_pc' = "done"
            /\ paths' = paths
       ELSE LET r == Unsubscribe_topics(topics)
            IN IF r.ok
               THEN /\ paths' = r.val
                    /\ send_pc' = "sending"
                    /\ result' = result
               ELSE /\ result' = r.err
                    /\ send_pc' = "done"
                    /\ paths' = paths
    /\ UNCHANGED <<kind, N, topics, last, fed, calls>>

\* Unsubscribe::send, one turn of `for t in topics.chunks(5) { mqtt.unsubscribe(t)?; }`
UnsubscribeSendCall ==
    /\ kind = "unsub"
    /\ send_pc = "sending"
    /\ LET cs == chunks(paths, ChunkSize)
           k == Len(calls) + 1
       IN \E ok \in BOOLEAN :
             /\ calls' = Append(calls, [op |-> "unsubscribe", topics |-> cs[k], ok |-> ok])
             /\ IF ~ok
                THEN /\ result' = "Mqtt"
                     /\ send_pc' = "done"
                ELSE IF k = Len(cs)
                THEN /\ result' = "Ok"
                     /\ send_pc' = "done"
                ELSE UNCHANGED <<result, send_pc>>
    /\ UNCHANGED <<kind, N, topics, last, fed, paths>>

-----------------------------------------------------------------------------
(* A builder given topics in any order *)

BuilderTopics ==
    {RegisterThingAccepted(W_t, "Json"), RegisterThingAccepted(W_tpl_1, "Json"),
     RegisterThingRejected(W_t, "Json"), CreateKeysAndCertificateAccepted("Cbor"),
     RegisterThing(W_t, "Json"), CreateKeysAndCertificate("Cbor"),
     CreateCertificateFromCsr("Json")}

BuilderInit ==
    /\ TopicIdle
    /\ FlowIdle
    /\ \E k \in {"sub", "unsub"}, n \in 1..MaxN : BuilderNew(k, n)

BuilderNext ==
    \/ /\ \E t \in BuilderTopics, qos \in QoS : SubscribeTopic(t, qos)
       /\ UNCHANGED <<fed, notBuilderVars>>
    \/ /\ \E t \in BuilderTopics : UnsubscribeTopic(t)
       /\ UNCHANGED <<fed, notBuilderVars>>
    \/ SubscribeTopics /\ UNCHANGED notBuilderVars
    \/ UnsubscribeTopics /\ UNCHANGED notBuilderVars

SpecBuilder == BuilderInit /\ [][BuilderNext]_vars

-----------------------------------------------------------------------------
(* A builder given the topics of a pool in the pool's order, then sent *)

SendPool ==
    << <<RegisterThingAccepted(W_t, "Json"), "AtLeastOnce">>,
       <<RegisterThingRejected(W_t, "Json"), "AtLeastOnce">>,
       <<CreateKeysAndCertificate("Json"), "AtLeastOnce">>,
       <<CreateKeysAndCertificateAccepted("Json"), "AtMostOnce">>,
       <<RegisterThingAccepted(W_long, "Json"), "AtLeastOnce">>,
       <<CreateKeysAndCertificateRejected("Json"), "AtLeastOnce">>,
       <<CreateCertificateFromCsrAccepted("Json"), "AtMostOnce">>,
       <<RegisterThingRejected(W_huge, "Cbor"), "AtLeastOnce">>,
       <<CreateCertificateFromCsrRejected("Json"), "AtLeastOnce">>,
       <<RegisterThingAccepted(W_tpl_1, "Cbor"), "AtLeastOnce">>,
       <<RegisterThingRejected(W_tpl_1, "Cbor"), "AtMostOnce">>,
       <<CreateKeysAndCertificateAccepted("Cbor"), "AtLeastOnce">>,
       <<CreateKeysAndCertificateRejected("Cbor"), "AtMostOnce">>,
       <<RegisterThingAccepted(W_empty, "Json"), "AtLeastOnce">> >>

SendInit ==
    /\ TopicIdle
    /\ FlowIdle
    /\ \E k \in {"sub", "unsub"} : BuilderNew(k, SendN)

SendNext ==
    \/ /\ \E i \in (fed + 1)..Len(SendPool) :
             /\ SubscribeTopic(SendPool[i][1], SendPool[i][2])
             /\ fed' = i
       /\ UNCHANGED notBuilderVars
    \/ /\ \E i \in (fed + 1)..Len(SendPool) :
             /\ UnsubscribeTopic(SendPool[i][1])
             /\ fed' = i
       /\ UNCHANGED notBuilderVars
    \/ SubscribeSendBegin /\ UNCHANGED notBuilderVars
    \/ SubscribeSendCall /\ UNCHANGED notBuilderVars
    \/ UnsubscribeSendBegin /\ UNCHANGED notBuilderVars
    \/ UnsubscribeSendCall /\ UNCHANGED notBuilderVars

SpecSend == SendInit /\ [][SendNext]_vars

-----------------------------------------------------------------------------
(* Claims about the builders *)

\* The topic of a stored entry: (Topic, QoS) in Subscribe, Topic in Unsubscribe.
EntryTopic(e) == IF kind = "sub" THEN e[1] ELSE e

StoredTopics(ts) == [i \in 1..Len(ts) |-> EntryTopic(ts[i])]

IsStored(ts, t) == \E i \in 1..Len(ts) : EntryTopic(ts[i]) = t

\* C5: topic() called with an Outgoing topic returns the builder with its stored
\* sequence unchanged, and no stored entry ever has direction Outgoing.
C5_OutgoingDropped ==
    /\ (last.called /\ last.topic.v \in RequestVariants) => topics = last.before
    /\ \A i \in 1..Len(topics) : EntryTopic(topics[i]).v \notin RequestVariants

C5_Witness ==
    /\ last.called
    /\ last.topic = CreateCertificateFromCsr("Json")
    /\ Len(last.before) = 2
    /\ topics = last.before

\* C6: no two stored entries hold equal topics, and adding a topic that is already
\* stored (for Subscribe with any QoS) leaves the stored sequence, with the QoS
\* recorded first, unchanged.
C6_Deduplicated ==
    /\ \A i, j \in 1..Len(topics) : i # j => EntryTopic(topics[i]) # EntryTopic(topics[j])
    /\ (last.called /\ IsStored(last.before, last.topic)) => topics = last.before

C6_Witness ==
    /\ kind = "sub"
    /\ last.called
    /\ \E i \in 1..Len(last.before) :
          /\ last.before[i][1] = last.topic
          /\ last.before[i][2] # last.qos
    /\ topics = last.before

\* C7: a builder never stores more than N entries, and a topic() call on a builder
\* that already holds N entries leaves these entries unchanged.
C7_CapacityBound ==
    /\ Len(topics) <= N
    /\ (last.called /\ Len(last.before) = N) => topics = last.before

C7_Witness ==
    /\ last.called
    /\ Len(last.before) = N
    /\ last.topic.v \notin RequestVariants
    /\ ~IsStored(last.before, last.topic)
    /\ topics = last.before

RECURSIVE Flatten(_)
Flatten(ss) == IF ss = <<>> THEN <<>> ELSE Head(ss) \o Flatten(Tail(ss))

CallTopics == Flatten([k \in 1..Len(calls) |-> calls[k].topics])

\* The entry send hands to the collaborator for the i-th stored entry.
SentEntry(i) ==
    IF kind = "sub"
    THEN <<format(topics[i][1], SubscribeTopicLen).val, topics[i][2]>>
    ELSE format(topics[i], UnsubscribeTopicLen).val

\* C8: every call of send carries between 1 and 5 topics and all calls but the last
\* carry exactly 5; a send that returns Ok has issued exactly ceil(n/5) calls for
\* its n stored topics (none for n = 0), and the calls' topic lists, concatenated
\* in call order, are the stored topics in insertion order.
C8_Batching ==
    /\ \A k \in 1..Len(calls) : Len(calls[k].topics) \in 1..5
    /\ \A k \in 1..(Len(calls) - 1) : Len(calls[k].topics) = 5
    /\ (send_pc = "done" /\ topics = <<>>) => (result = "Ok" /\ calls = <<>>)
    /\ result = "Ok" =>
          /\ Len(calls) = (Len(topics) + 4) \div 5
          /\ Len(CallTopics) = Len(topics)
          /\ \A i \in 1..Len(topics) : CallTopics[i] = SentEntry(i)

C8_Witness ==
    /\ result = "Ok"
    /\ Len(topics) = 7
    /\ Len(calls) = 2
    /\ Len(calls[1].topics) = 5
    /\ Len(calls[2].topics) = 2

\* C9: a send that returns the MQTT error has issued the batches 1..k in order, each
\* once, the k-th being the one that failed; no call follows a failed call, and
\* the batches issued before it are not undone by a call of the other kind.
C9_BatchFailure ==
    /\ \A k \in 1..(Len(calls) - 1) : calls[k].ok
    /\ \A k \in 1..Len(calls) :
          /\ calls[k].op = (IF kind = "sub" THEN "subscribe" ELSE "unsubscribe")
          /\ calls[k].topics = SubSeq(paths, 5 * (k - 1) + 1, Min(5 * k, Len(paths)))
    /\ result = "Mqtt" =>
          /\ send_pc = "done"
          /\ calls # <<>>
          /\ ~calls[Len(calls)].ok
    /\ (calls # <<>> /\ ~calls[Len(calls)].ok) => result = "Mqtt"

C9_Witness ==
    /\ result = "Mqtt"
    /\ Len(paths) = 11
    /\ Len(calls) = 2
    /\ calls[1].ok
    /\ ~calls[2].ok

-----------------------------------------------------------------------------
(* provision_credentials of examples/provisioning.rs, on a FleetProvisioner *)

\* The template name the example gives FleetProvisioner::new / new_json.
W_provision_template == <<"p", "r", "o", "v", "i", "s", "i", "o", "n", "_", "t", "e", "m", "p", "l", "a", "t", "e">>
\* "$aws/things/foo/shadow/update/accepted", a topic of another protocol
UnrelatedTopic == <<"$", "a", "w", "s", "/", "t", "h", "i", "n", "g", "s", "/", "f", "o", "o", "/", "s", "h", "a", "d", "o", "w", "/", "u", "p", "d", "a", "t", "e", "/", "a", "c", "c", "e", "p", "t", "e", "d">>
\* "$aws/certificates/anything": passes Topic::check, is no topic of the grammar
UnparsedTopic == <<"$", "a", "w", "s", "/", "c", "e", "r", "t", "i", "f", "i", "c", "a", "t", "e", "s", "/", "a", "n", "y", "t", "h", "i", "n", "g">>

\* The six response topics FleetProvisioner::initialize subscribes to.
InitializeTopics(tpl, f) ==
    <<CreateKeysAndCertificateAccepted(f), CreateKeysAndCertificateRejected(f),
      CreateCertificateFromCsrAccepted(f), CreateCertificateFromCsrRejected(f),
      RegisterThingAccepted(tpl, f), RegisterThingRejected(tpl, f)>>

RECURSIVE subscribe_all(_, _, _)
subscribe_all(ts, n, list) ==
    IF list = <<>> THEN ts
    ELSE subscribe_all(Subscribe_topic(ts, n, Head(list), "AtLeastOnce"), n, Tail(list))

\* The subscribe calls of FleetProvisioner::initialize: Subscribe::send of a builder
\* holding the six response topics.
initialize_calls(tpl, f) ==
    LET list == InitializeTopics(tpl, f)
        r == Subscribe_topics(subscribe_all(<<>>, Len(list), list))
    IN IF r.ok THEN chunks(r.val, ChunkSize) ELSE <<>>

\* FleetProvisioner::begin: the request it publishes
begin_request(f) == CreateKeysAndCertificate(f)

\* FleetProvisioner::register_thing: the request it publishes
register_thing_request(tpl, f) == RegisterThing(tpl, f)

\* FleetProvisioner::handle_message: the Response or the error it returns for a
\* publish on topic_name with the given payload.
handle_message(topic_name, payload) ==
    LET t == from_str(topic_name)
    IN IF ~t.some THEN Ok("None")
       ELSE IF t.val.v \in {"CreateKeysAndCertificateRejected",
                            "CreateCertificateFromCsrRejected", "RegisterThingRejected"}
       THEN Err("Rejected")
       ELSE IF t.val.v \in {"CreateKeysAndCertificateAccepted",
                            "CreateCertificateFromCsrAccepted"}
       THEN IF payload.enc = t.val.fmt /\ payload.doc = "credentials"
            THEN Ok("Credentials") ELSE Err("Decode")
       ELSE IF t.val.v = "RegisterThingAccepted"
       THEN IF payload.enc = t.val.fmt /\ payload.doc = "configuration"
            THEN Ok("DeviceConfiguration") ELSE Err("Decode")
       ELSE Ok("None")

Suback == [type |-> "Suback"]
Publish(topic_name, payload) == [type |-> "Publish", topic |-> topic_name, payload |-> payload]

\* What the cloud may answer to a published request: accepted with a document of
\* the request's format, accepted with bytes that do not decode, or rejected.
CloudResponses(req) ==
    LET f == PayloadFormat_fmt(req.fmt)
        base == IF req.v = "RegisterThing"
                THEN <<W_aws, W_provisioning_templates, req.name, W_provision, f>>
                ELSE IF req.v = "CreateKeysAndCertificate"
                THEN <<W_aws, W_certificates, W_create, f>>
                ELSE <<W_aws, W_certificates, W_create_from_csr, f>>
        doc == IF req.v = "RegisterThing" THEN "configuration" ELSE "credentials"
    IN {Publish(Join(Append(base, W_accepted)), [enc |-> req.fmt, doc |-> doc]),
        Publish(Join(Append(base, W_accepted)), [enc |-> req.fmt, doc |-> "garbage"]),
        Publish(Join(Append(base, W_rejected)), [enc |-> req.fmt, doc |-> "error"])}

\* Notifications the event loop may yield at any time: traffic of other protocols,
\* a topic under the reserved prefix that is no provisioning response, another
\* kind of notification, an error of yield_event.
OtherTraffic ==
    {Publish(UnrelatedTopic, [enc |-> "Json", doc |-> "shadow"]),
     Publish(UnparsedTopic, [enc |-> "Json", doc |-> "garbage"]),
     [type |-> "Puback"],
     [type |-> "Err"]}

\* What yield_event may return next: the oldest queued notification, or other traffic.
Yielded ==
    (IF net # <<>> THEN {[queued |-> TRUE, n |-> Head(net)]} ELSE {})
    \cup {[queued |-> FALSE, n |-> x] : x \in OtherTraffic}

Rest(y) == IF y.queued THEN Tail(net) ELSE net

\* Mutant: every notification that is no provisioning publish starts provisioning.
Arm_begin_on_any(n) ==
    IF n.type = "Publish" /\ check(n.topic) THEN "publish" ELSE "suback"

\* The arm of `match mqtt_eventloop.yield_event(..)` that takes notification n.
Arm(n) ==
    IF n.type = "Publish" /\ check(n.topic) THEN "publish"
    ELSE IF n.type = "Suback" THEN "suback"
    ELSE "other"

\* FleetProvisioner::new / new_json and provisioner.initialize().expect(..)
Initialize ==
    /\ flow_pc = "connected"
    /\ LET cs == initialize_calls(W_provision_template, payload_format)
       IN \E failed \in 0..Len(cs) :
             IF failed = 0
             THEN /\ flow_pc' = "loop"
                  /\ net' = net \o [k \in 1..Len(cs) |-> Suback]
             ELSE /\ flow_pc' = "panicked"
                  /\ net' = net \o [k \in 1..(failed - 1) |-> Suback]
    /\ last_event' = [arm |-> "initialize"]
    /\ UNCHANGED <<payload_format, requests, subacks_seen, provisioned_credentials,
                   flow_result>>

\* Ok(Notification::Suback(_)) => provisioner.begin().expect(..)
LoopSuback ==
    /\ flow_pc = "loop"
    /\ \E y \in Yielded :
          /\ Arm(y.n) = "suback"
          /\ last_event' = [arm |-> "suback", n |-> y.n]
          /\ subacks_seen' = subacks_seen + (IF y.n.type = "Suback" THEN 1 ELSE 0)
          /\ \E ok \in BOOLEAN :
                IF ok
                THEN /\ requests' = Append(requests, begin_request(payload_format))
                     /\ \E resp \in CloudResponses(begin_request(payload_format)) :
                           net' = Append(Rest(y), resp)
                     /\ flow_pc' = flow_pc
                ELSE /\ flow_pc' = "panicked"
                     /\ net' = Rest(y)
                     /\ requests' = requests
    /\ UNCHANGED <<payload_format, provisioned_credentials, flow_result>>

\* Mutant: the Response::DeviceConfiguration arm lacks its `break Ok(())`.
LoopPublish_no_break ==
    /\ flow_pc = "loop"
    /\ \E y \in Yielded :
          /\ Arm(y.n) = "publish"
          /\ last_event' = [arm |-> "publish", n |-> y.n]
          /\ LET r == handle_message(y.n.topic, y.n.payload)
                 req == register_thing_request(W_provision_template, payload_format)
             IN IF r = Ok("Credentials")
                THEN /\ provisioned_credentials' = Some("credentials")
                     /\ flow_result' = flow_result
                     /\ \E ok \in BOOLEAN :
                           IF ok
                           THEN /\ requests' = Append(requests, req)
                                /\ \E resp \in CloudResponses(req) :
                                      net' = Append(Rest(y), resp)
                                /\ flow_pc' = flow_pc
                           ELSE /\ flow_pc' = "panicked"
                                /\ net' = Rest(y)
                                /\ requests' = requests
                ELSE IF r = Ok("DeviceConfiguration")
                THEN /\ net' = Rest(y)
                     /\ UNCHANGED <<flow_pc, flow_result, requests, provisioned_credentials>>
                ELSE IF r = Ok("None")
                THEN /\ net' = Rest(y)
                     /\ UNCHANGED <<flow_pc, flow_result, requests, provisioned_credentials>>
                ELSE /\ flow_pc' = "done"
                     /\ flow_result' = "Err"
                     /\ net' = Rest(y)
                     /\ UNCHANGED <<requests, provisioned_credentials>>
    /\ UNCHANGED <<payload_format, subacks_seen>>

\* Mutant: the Err(e) arm logs the error and lacks its `break Err(())`.
LoopPublish_continue_on_err ==
    /\ flow_pc = "loop"
    /\ \E y \in Yielded :
          /\ Arm(y.n) = "publish"
          /\ last_event' = [arm |-> "publish", n |-> y.n]
          /\ LET r == handle_message(y.n.topic, y.n.payload)
                 req == register_thing_request(W_provision_template, payload_format)
             IN IF r = Ok("Credentials")
                THEN /\ provisioned_credentials' = Some("credentials")
                     /\ flow_result' = flow_result
                     /\ \E ok \in BOOLEAN :
                           IF ok
                           THEN /\ requests' = Append(requests, req)
                                /\ \E resp \in CloudResponses(req) :
                                      net' = Append(Rest(y), resp)
                                /\ flow_pc' = flow_pc
                           ELSE /\ flow_pc' = "panicked"
                                /\ net' = Rest(y)
                                /\ requests' = requests
                ELSE IF r = Ok("DeviceConfiguration")
                THEN /\ flow_pc' = "done"
                     /\ flow_result' = IF provisioned_credentials.some THEN "Ok" ELSE "Err"
                     /\ net' = Rest(y)
                     /\ UNCHANGED <<requests, provisioned_credentials>>
                ELSE IF r = Ok("None")
                THEN /\ net' = Rest(y)
                     /\ UNCHANGED <<flow_pc, flow_result, requests, provisioned_credentials>>
                ELSE /\ net' = Rest(y)
                     /\ UNCHANGED <<flow_pc, flow_result, requests, provisioned_credentials>>
    /\ UNCHANGED <<payload_format, subacks_seen>>

\* Ok(Notification::Publish(publish)) if Topic::check(..) => match handle_message(..)
LoopPublish ==
    /\ flow_pc = "loop"
    /\ \E y \in Yielded :
          /\ Arm(y.n) = "publish"
          /\ last_event' = [arm |-> "publish", n |-> y.n]
          /\ LET r == handle_message(y.n.topic, y.n.payload)
                 req == register_thing_request(W_provision_template, payload_format)
             IN IF r = Ok("Credentials")
                THEN /\ provisioned_credentials' = Some("credentials")
                     /\ flow_result' = flow_result
                     /\ \E ok \in BOOLEAN :
                           IF ok
                           THEN /\ requests' = Append(requests, req)
                                /\ \E resp \in CloudResponses(req) :
                                      net' = Append(Rest(y), resp)
                                /\ flow_pc' = flow_pc
                           ELSE /\ flow_pc' = "panicked"
                                /\ net' = Rest(y)
                                /\ requests' = requests
                ELSE IF r = Ok("DeviceConfiguration")
                THEN /\ flow_pc' = "done"
                     /\ flow_result' = IF provisioned_credentials.some THEN "Ok" ELSE "Err"
                     /\ net' = Rest(y)
                     /\ UNCHANGED <<requests, provisioned_credentials>>
                ELSE IF r = Ok("None")
                THEN /\ net' = Rest(y)
                     /\ UNCHANGED <<flow_pc, flow_result, requests, provisioned_credentials>>
                ELSE /\ flow_pc' = "done"
                     /\ flow_result' = "Err"
                     /\ net' = Rest(y)
                     /\ UNCHANGED <<requests, provisioned_credentials>>
    /\ UNCHANGED <<payload_format, subacks_seen>>

\* Mutant: the catch-all arm ends the loop (`_ => break Err(())`).
LoopOther_break ==
    /\ flow_pc = "loop"
    /\ \E y \in Yielded :
          /\ Arm(y.n) = "other"
          /\ last_event' = [arm |-> "other", n |-> y.n]
          /\ net' = Rest(y)
    /\ flow_pc' = "done"
    /\ flow_result' = "Err"
    /\ UNCHANGED <<payload_format, requests, subacks_seen, provisioned_credentials>>

\* Ok(n) => log::trace!(..) and _ => {}
LoopOther ==
    /\ flow_pc = "loop"
    /\ \E y \in Yielded :
          /\ Arm(y.n) = "other"
          /\ last_event' = [arm |-> "other", n |-> y.n]
          /\ net' = Rest(y)
    /\ UNCHANGED <<flow_pc, payload_format, requests, subacks_seen,
                   provisioned_credentials, flow_result>>

\* The broker connection is up (nb::block!(mqtt_eventloop.connect(..))), before the
\* provisioner is built; the `cbor` feature selects the payload format.
FlowInit ==
    /\ TopicIdle
    /\ BuilderIdle
    /\ flow_pc = "connected"
    /\ payload_format \in PayloadFormat
    /\ net = <<>>
    /\ requests = <<>>
    /\ subacks_seen = 0
    /\ provisioned_credentials = None
    /\ flow_result = "none"
    /\ last_event = [arm |-> "none"]

FlowNext ==
    \/ Initialize /\ UNCHANGED notFlowVars
    \/ LoopSuback /\ UNCHANGED notFlowVars
    \/ LoopPublish /\ UNCHANGED notFlowVars
    \/ LoopOther /\ UNCHANGED notFlowVars

SpecFlow == FlowInit /\ [][FlowNext]_vars

-----------------------------------------------------------------------------
(* Claims about the provisioning flow *)

\* C10: no provisioning request (the CreateKeysAndCertificate publish of begin, the
\* RegisterThing publish of register_thing) is issued before initialize() has been
\* called and at least one SubAck notification has been observed.
C10_SubackBeforeRequest ==
    requests # <<>> => (flow_pc # "connected" /\ subacks_seen >= 1)

C10_Witness ==
    /\ requests # <<>>
    /\ requests[1].v = "CreateKeysAndCertificate"
    /\ requests[Len(requests)].v = "RegisterThing"
    /\ subacks_seen >= 1

\* The provisioning requests that are outstanding: the cloud answers a published
\* request once, and the request is outstanding until the loop is handed the answer.
Outstanding == {i \in 1..Len(net) : net[i].type = "Publish"}

\* C11: at every point of an attempt at most one provisioning request is
\* outstanding (published and not yet answered by its accepted or rejected
\* response); a second SubAck does not publish a second request.
C11_SingleOutstanding ==
    Cardinality(Outstanding) <= 1

\* A turn of the loop in which yield_event returns the oldest queued notification
\* (the notifications of other traffic are never equal to a queued one).
DeliverQueued ==
    /\ flow_pc = "loop"
    /\ net # <<>>
    /\ last_event' = [arm |-> Arm(Head(net)), n |-> Head(net)]
    /\ \/ net' = Tail(net)
       \/ \E req \in {begin_request(payload_format),
                       register_thing_request(W_provision_template, payload_format)} :
             \E resp \in CloudResponses(req) : net' = Append(Tail(net), resp)

\* The loop keeps polling, and a notification that the broker has sent is yielded
\* after finitely many notifications of other traffic.
SpecFlowFair == SpecFlow /\ WF_<<last_event, net>>(DeliverQueued)

\* What handle_message returned for the notification the Publish arm took last.
LastHandled ==
    IF last_event.arm = "publish"
    THEN handle_message(last_event.n.topic, last_event.n.payload)
    ELSE Ok("no publish")

\* The order of the happy path.
C12_Order ==
    /\ requests # <<>> => (requests[1].v = "CreateKeysAndCertificate" /\ subacks_seen >= 1)
    /\ (last_event.arm = "suback" /\ flow_pc = "loop")
          => requests[Len(requests)] = CreateKeysAndCertificate(payload_format)
    /\ \A i \in 1..Len(requests) :
          requests[i].v = "RegisterThing" =>
             /\ requests[i] = RegisterThing(W_provision_template, payload_format)
             /\ provisioned_credentials.some
             /\ \E j \in 1..(i - 1) : requests[j].v = "CreateKeysAndCertificate"
    /\ (LastHandled = Ok("Credentials") /\ flow_pc = "loop")
          => /\ requests[Len(requests)].v = "RegisterThing"
             /\ provisioned_credentials.some
    /\ LastHandled = Ok("DeviceConfiguration")
          => (flow_pc = "done" /\ flow_result = "Ok" /\ provisioned_credentials.some)
    /\ flow_result = "Ok"
          => (LastHandled = Ok("DeviceConfiguration") /\ provisioned_credentials.some)

\* No expect has failed, and every response on its way accepts its request with
\* a payload that decodes.
C12_Happy ==
    /\ flow_pc # "panicked"
    /\ flow_result # "Err"
    /\ \A i \in 1..Len(net) :
          net[i].type = "Publish" =>
             handle_message(net[i].topic, net[i].payload)
                \in {Ok("Credentials"), Ok("DeviceConfiguration")}

\* C12: after a SubAck the flow publishes CreateKeysAndCertificate; it publishes
\* RegisterThing for the template only after a CreateKeysAndCertificateAccepted
\* with credentials that decode; a RegisterThingAccepted with a device
\* configuration ends the flow with success and the credentials obtained before.
\* When these notifications are delivered (no publish fails, no response rejects),
\* the flow, once in its loop, eventually returns success.
C12_HappyPath ==
    /\ []C12_Order
    /\ []C12_Happy => [](flow_pc = "loop" => <>(flow_result = "Ok"))

C12_Witness ==
    /\ flow_pc = "done"
    /\ flow_result = "Ok"
    /\ provisioned_credentials.some
    /\ requests[1].v = "CreateKeysAndCertificate"
    /\ requests[Len(requests)].v = "RegisterThing"
    /\ from_str(last_event.n.topic) = Some(RegisterThingAccepted(W_provision_template, payload_format))

\* The attempt has ended with the failure result when the handler returned an error.
C13_Ended ==
    ~LastHandled.ok => (flow_pc = "done" /\ flow_result = "Err")

\* The turn that ends the loop with the failure result issues no request, and no
\* step follows the end of the loop.
C13_Frozen ==
    /\ (flow_pc' = "done" /\ flow_result' = "Err") => requests' = requests
    /\ flow_pc = "done" => UNCHANGED flowVars

\* C13: once handle_message returns an error (a Rejected topic, a payload that does
\* not decode), the attempt ends with the failure result, and no publish,
\* subscribe, begin or register_thing follows, whatever notifications are queued.
C13_RejectionTerminal ==
    /\ []C13_Ended
    /\ [][C13_Frozen]_vars

C13_Witness ==
    /\ LastHandled = Err("Rejected")
    /\ flow_pc = "done"
    /\ flow_result = "Err"
    /\ requests # <<>>
    /\ net # <<>>

\* The loop was handed a publish whose topic is outside the provisioning namespace.
UnrelatedTaken(e) ==
    /\ e.arm \in {"publish", "suback", "other"}
    /\ e.n.type = "Publish"
    /\ ~starts_with(e.n.topic, CERT_PREFIX)
    /\ ~starts_with(e.n.topic, PROVISIONING_PREFIX)

C14_Ignored ==
    UnrelatedTaken(last_event') =>
        UNCHANGED <<flow_pc, payload_format, net, requests, subacks_seen,
                    provisioned_credentials, flow_result>>

\* C14: a publish notification whose topic is outside the provisioning namespace,
\* in whatever state of the loop it is delivered, leaves the flow state, the
\* stored credentials and the result unchanged and issues no request.
C14_UnrelatedIgnored ==
    [][C14_Ignored]_vars

C14_Witness ==
    /\ last_event.arm = "other"
    /\ last_event.n.type = "Publish"
    /\ last_event.n.topic = UnrelatedTopic
    /\ flow_pc = "loop"
    /\ provisioned_credentials.some
    /\ requests[Len(requests)].v = "RegisterThing"

-----------------------------------------------------------------------------
(* Further claims about Topic *)

\* The string built from the segments sg begins with "$aws/" followed by w.
BeginsWithAws(sg, w) ==
    /\ Len(sg) >= 2
    /\ sg[1] = W_aws
    /\ Len(sg[2]) >= Len(w)
    /\ \A i \in 1..Len(w) : sg[2][i] = w[i]

\* C15: check(s) is true if and only if s begins with "$aws/certificates" or with
\* "$aws/provisioning-templates" (whatever follows the prefix, and whether or not
\* from_str recognises s).
C15_CheckIffPrefix ==
    op = "check" =>
        (checked <=> (\/ BeginsWithAws(segs, W_certificates)
                      \/ BeginsWithAws(segs, W_provisioning_templates)))

\* "$aws/certificates-x/tpl-1": check is true, from_str returns None.
C15_Witness ==
    /\ op = "check"
    /\ segs = <<W_aws, W_certificates_x, W_tpl_1>>
    /\ checked
    /\ parsed = None

\* The six response variants.
ResponseVariants ==
    {"RegisterThingAccepted", "RegisterThingRejected",
     "CreateKeysAndCertificateAccepted", "CreateKeysAndCertificateRejected",
     "CreateCertificateFromCsrAccepted", "CreateCertificateFromCsrRejected"}

\* C16: direction is Outgoing for exactly the three request variants and Incoming
\* for exactly the six Accepted / Rejected variants, for every template name and
\* payload format.
C16_Direction ==
    op = "direction" =>
        /\ topic.v \in RequestVariants \cup ResponseVariants
        /\ dir = "Outgoing" <=> topic.v \in RequestVariants
        /\ dir = "Incoming" <=> topic.v \in ResponseVariants

C16_Witness ==
    /\ op = "direction"
    /\ topic = RegisterThingRejected(W_tpl_1, "Cbor")
    /\ dir = "Incoming"

-----------------------------------------------------------------------------
(* Further claims about the builders *)

\* The topic() call recorded in `last` is one the builder accepts: an incoming
\* topic that is not stored yet, given to a builder that is not full.
LastAccepted ==
    /\ last.topic.v \in ResponseVariants
    /\ ~IsStored(last.before, last.topic)
    /\ Len(last.before) < N

LastEntry == IF kind = "sub" THEN <<last.topic, last.qos>> ELSE last.topic

\* C17: a topic() call that is accepted appends its entry at the end of the stored
\* sequence, any other call leaves the sequence as it was (no entry is ever moved
\* or removed), and topics() returns the formatted entries, with their QoS, in
\* the order they are stored.
C17_InsertionOrder ==
    /\ last.called =>
          topics = IF LastAccepted THEN Append(last.before, LastEntry) ELSE last.before
    /\ (send_pc = "done" /\ result = "Ok") =>
          /\ Len(paths) = Len(topics)
          /\ \A i \in 1..Len(topics) : paths[i] = SentEntry(i)

C17_Witness ==
    /\ kind = "sub"
    /\ send_pc = "done"
    /\ result = "Ok"
    /\ Len(paths) = 3
    /\ Len(last.before) = 2
    /\ topics = Append(last.before, <<last.topic, last.qos>>)
    /\ StoredTopics(topics) = <<RegisterThingRejected(W_t, "Json"),
                                CreateKeysAndCertificateAccepted("Cbor"),
                                RegisterThingAccepted(W_t, "Json")>>

\* The topic string the wire grammar gives a Topic value.
FormatWord(f) == IF f = "Cbor" THEN W_cbor ELSE W_json

Canonical(t) ==
    Join(CASE t.v = "RegisterThing" ->
                <<W_aws, W_provisioning_templates, t.name, W_provision, FormatWord(t.fmt)>>
           [] t.v = "RegisterThingAccepted" ->
                <<W_aws, W_provisioning_templates, t.name, W_provision, FormatWord(t.fmt),
                  W_accepted>>
           [] t.v = "RegisterThingRejected" ->
                <<W_aws, W_provisioning_templates, t.name, W_provision, FormatWord(t.fmt),
                  W_rejected>>
           [] t.v = "CreateKeysAndCertificate" ->
                <<W_aws, W_certificates, W_create, FormatWord(t.fmt)>>
           [] t.v = "CreateKeysAndCertificateAccepted" ->
                <<W_aws, W_certificates, W_create, FormatWord(t.fmt), W_accepted>>
           [] t.v = "CreateKeysAndCertificateRejected" ->
                <<W_aws, W_certificates, W_create, FormatWord(t.fmt), W_rejected>>
           [] t.v = "CreateCertificateFromCsr" ->
                <<W_aws, W_certificates, W_create_from_csr, FormatWord(t.fmt)>>
           [] t.v = "CreateCertificateFromCsrAccepted" ->
                <<W_aws, W_certificates, W_create_from_csr, FormatWord(t.fmt), W_accepted>>
           [] t.v = "CreateCertificateFromCsrRejected" ->
                <<W_aws, W_certificates, W_create_from_csr, FormatWord(t.fmt), W_rejected>>)

\* The i-th stored topic does not fit the buffer topics() formats it into.
TooLong(i) ==
    Len(Canonical(EntryTopic(topics[i])))
        > (IF kind = "sub" THEN SubscribeTopicLen ELSE UnsubscribeTopicLen)

\* What topics() returns for the stored entries.
TopicsResult ==
    IF kind = "sub" THEN Subscribe_topics(topics) ELSE Unsubscribe_topics(topics)

\* C18: send returns Overflow exactly when a stored topic does not fit its buffer
\* (128 bytes in Subscribe, 256 bytes in Unsubscribe), which is when topics()
\* returns Overflow; it has then issued no subscribe / unsubscribe call, also
\* when the topics stored before the long one fit.
C18_FormatBeforeSend ==
    /\ send_pc # "build" =>
          /\ result = "Overflow" <=> \E i \in 1..Len(topics) : TooLong(i)
          /\ result = "Overflow" <=> (~TopicsResult.ok /\ TopicsResult.err = "Overflow")
    /\ result = "Overflow" => (send_pc = "done" /\ calls = <<>>)

C18_Witness ==
    /\ kind = "sub"
    /\ send_pc = "done"
    /\ result = "Overflow"
    /\ calls = <<>>
    /\ Len(topics) >= 4
    /\ ~TooLong(1)
    /\ ~TooLong(2)
    /\ TooLong(3)

\* C19: format::<L> returns Err(Overflow) exactly when the topic string of the
\* variant is longer than L, and otherwise Ok with the whole topic string, never
\* a shortened one.
C19_FormatOverflow ==
    op \in {"format", "inverse"} =>
        formatted = IF Len(Canonical(topic)) > cap
                    THEN Err("Overflow")
                    ELSE Ok(Canonical(topic))

\* C20: every string that from_str recognises passes check, so the guard
\* Topic::check of the loop's Publish arm never keeps a recognised topic from
\* the message handler.
C20_FilterNeverHides ==
    op = "check" =>
        /\ parsed.some => checked
        /\ parsed.some => Arm(Publish(str, [enc |-> "Json", doc |-> "any"])) = "publish"

C20_Witness ==
    /\ op = "check"
    /\ parsed = Some(CreateKeysAndCertificateAccepted("Json"))
    /\ Len(segs) = 5
    /\ checked

====
